---- MODULE Spec2Model ----
(***************************************************************************)
(* Model of the projection / statistics core of the camera viewer          *)
(* (src/src/core/projection.py).                                           *)
(*                                                                         *)
(* Numbers.  The code computes in float64.  The model computes in exact    *)
(* rational arithmetic: a number is a record [n |-> numerator,             *)
(* d |-> denominator] in lowest terms with d > 0, so two numbers are equal *)
(* exactly when their records are equal.  Rounding of float64 is not       *)
(* modelled.  The standard deviation (a square root) is carried as its     *)
(* square, the population variance.                                        *)
(*                                                                         *)
(* Indices.  Python indexes from 0, TLA+ sequences from 1.  All indices    *)
(* and positions in the model are the Python (0-based) ones; At(data, i)   *)
(* reads data[i].                                                          *)
(***************************************************************************)
EXTENDS Integers, Sequences, FiniteSets, TLC

VARIABLES pc, data, frame, self, op, args, ret, alias

coreVars == <<pc, data, frame, self, op, args, ret, alias>>

(* MainWindow's two analyzers and the calls made on them: cfg is the       *)
(* configuration as the owner last set it, ev the last operation, memo an  *)
(* earlier analysis call kept for comparison.                              *)
VARIABLES x_analyzer, y_analyzer, cfg, ev, memo

cfgVars == <<x_analyzer, y_analyzer, cfg, ev, memo>>

(* Acquisition: the camera, MainWindow's thread reference and frame       *)
(* counter, the start / stop buttons, the AcquisitionThread (worker), the  *)
(* main thread's position (main) and its queue of pending signal           *)
(* deliveries.  acquired, shown, emitted, fails and starts record what has *)
(* happened: frames returned by get_frame, payloads passed to _on_frame,   *)
(* the current worker's emissions, get_frame failures, thread starts.      *)
VARIABLES camera, thread, frame_count, controls, worker, main, queue,
          acquired, shown, emitted, fails, starts

acqVars == <<camera, thread, frame_count, controls, worker, main, queue,
             acquired, shown, emitted, fails, starts>>

(* One camera object (cam), the last call made on it (cam_ev) and an       *)
(* earlier get_frame result kept for comparison (cam_memo).                *)
VARIABLES cam, cam_ev, cam_memo

camVars == <<cam, cam_ev, cam_memo>>

(* One ProjectionPlot widget (plot) and the last call or event it has      *)
(* handled (plot_ev).                                                      *)
VARIABLES plot, plot_ev

plotVars == <<plot, plot_ev>>

vars == <<coreVars, cfgVars, acqVars, camVars, plotVars>>

----------------------------------------------------------------------------
(* Bounds of the input space *)

MaxLen == 5
MaxNeg == 1
MaxVal == 2
MaxSamples == 4
MaxChan == 2
MaxPix == 1

----------------------------------------------------------------------------
(* Exact rational numbers *)

Abs(x) == IF x < 0 THEN -x ELSE x

RECURSIVE Gcd(_, _)
Gcd(a, b) == IF b = 0 THEN a ELSE Gcd(b, a % b)

Rat(n, d) ==
    LET g == Gcd(Abs(n), Abs(d))
        s == IF d < 0 THEN -1 ELSE 1
    IN  [n |-> (s * n) \div g, d |-> (s * d) \div g]

R(i) == [n |-> i, d |-> 1]

RAdd(a, b) == Rat(a.n * b.d + b.n * a.d, a.d * b.d)
RSub(a, b) == Rat(a.n * b.d - b.n * a.d, a.d * b.d)
RMul(a, b) == Rat(a.n * b.n, a.d * b.d)
RDiv(a, b) == Rat(a.n * b.d, a.d * b.n)
RLe(a, b) == a.n * b.d <= b.n * a.d
RLt(a, b) == a.n * b.d < b.n * a.d
RGe(a, b) == RLe(b, a)
RGt(a, b) == RLt(b, a)

None == << >>
Some(x) == << x >>

----------------------------------------------------------------------------
(* numpy reductions over a non-empty 1-D array *)

At(a, i) == a[i + 1]

RECURSIVE np_sum(_)
np_sum(a) == IF Len(a) = 0 THEN R(0) ELSE RAdd(Head(a), np_sum(Tail(a)))

RECURSIVE np_max(_)
np_max(a) ==
    IF Len(a) = 1 THEN Head(a)
    ELSE LET m == np_max(Tail(a)) IN IF RGe(Head(a), m) THEN Head(a) ELSE m

RECURSIVE np_min(_)
np_min(a) ==
    IF Len(a) = 1 THEN Head(a)
    ELSE LET m == np_min(Tail(a)) IN IF RLe(Head(a), m) THEN Head(a) ELSE m

(* the float64 nan: np.mean of an empty slice is nan (with a warning) *)
NaN == [n |-> 0, d |-> 0]

np_mean(a) == IF Len(a) = 0 THEN NaN ELSE RDiv(np_sum(a), R(Len(a)))

(* index of the first occurrence of the maximum *)
np_argmax(a) ==
    LET m == np_max(a)
    IN  CHOOSE i \in 0..(Len(a) - 1) :
            /\ At(a, i) = m
            /\ \A j \in 0..(i - 1) : At(a, j) # m

(* variant: the sample variance (divide by N - 1) *)
np_var_sample(a) ==
    LET mu == np_mean(a)
        sq == [k \in 1..Len(a) |-> RMul(RSub(a[k], mu), RSub(a[k], mu))]
    IN  IF Len(a) = 1 THEN R(0) ELSE RDiv(np_sum(sq), R(Len(a) - 1))

(* np.std squared: mean of the squared deviations from the mean *)
np_var(a) ==
    LET mu == np_mean(a)
        sq == [k \in 1..Len(a) |-> RMul(RSub(a[k], mu), RSub(a[k], mu))]
    IN  np_mean(sq)

----------------------------------------------------------------------------
(* Outcome of a call: a returned value or a raised exception *)

Return(v) == [exc |-> "", val |-> v]
Raise(e) == [exc |-> e, val |-> << >>]

----------------------------------------------------------------------------
(* Frames and grids.                                                       *)
(* A frame is [h, w, c, px]: c = 0 is a 2-D frame (px[r][k] is a sample),  *)
(* c >= 1 a 3-D frame with c channels (px[r][k] is the sequence of the     *)
(* pixel's channel values).  A grid is [h, w, px] of numbers.              *)

ProjectionMode == {"sum", "min", "max", "avg"}

Column(image, j) == [i \in 1..image.h |-> image.px[i][j + 1]]
Row(image, i) == [j \in 1..image.w |-> image.px[i + 1][j]]

(* variant: the MIN branch reduces with the maximum *)
Reduce_min_as_max(mode, samples) ==
    IF mode = "sum" THEN np_sum(samples)
    ELSE IF mode = "min" THEN np_max(samples)
    ELSE IF mode = "max" THEN np_max(samples)
    ELSE np_mean(samples)

Reduce(mode, samples) ==
    IF mode = "sum" THEN np_sum(samples)
    ELSE IF mode = "min" THEN np_min(samples)
    ELSE IF mode = "max" THEN np_max(samples)
    ELSE np_mean(samples)

ReduceCols(image, mode) ==
    [j \in 1..image.w |-> Reduce(mode, Column(image, j - 1))]
ReduceRows(image, mode) ==
    [i \in 1..image.h |-> Reduce(mode, Row(image, i - 1))]

(* np.min / np.max raise ValueError when the reduced axis has length 0;   *)
(* np.sum then gives 0.0 and np.mean gives nan for every kept position    *)
NoIdentity(mode, n) == mode \in {"min", "max"} /\ n = 0

(* variant: the two axes exchanged *)
calculate_projection_axes_swapped(image, axis, mode) ==
    IF axis = 0
    THEN IF NoIdentity(mode, image.w) THEN Raise("ValueError")
         ELSE Return(ReduceRows(image, mode))
    ELSE IF NoIdentity(mode, image.h) THEN Raise("ValueError")
         ELSE Return(ReduceCols(image, mode))

calculate_projection(image, axis, mode) ==
    IF axis = 0
    THEN IF NoIdentity(mode, image.h) THEN Raise("ValueError")
         ELSE Return(ReduceCols(image, mode))
    ELSE IF NoIdentity(mode, image.w) THEN Raise("ValueError")
         ELSE Return(ReduceRows(image, mode))

(* variant: the guard tests max_val != 0 instead of max_val > 0 *)
normalize_projection_nonzero(a) ==
    IF Len(a) = 0 THEN Raise("ValueError")
    ELSE LET max_val == np_max(a)
         IN  IF max_val # R(0)
             THEN Return([k \in 1..Len(a) |-> RDiv(a[k], max_val)])
             ELSE Return(a)

normalize_projection(a) ==
    IF Len(a) = 0 THEN Raise("ValueError")
    ELSE LET max_val == np_max(a)
         IN  IF RGt(max_val, R(0))
             THEN Return([k \in 1..Len(a) |-> RDiv(a[k], max_val)])
             ELSE Return(a)

(* Python's negative index: a[-1] is the last element *)
AtWrap(a, i) == a[(i % Len(a)) + 1]

(* variant: the left scan runs down to i = 0, range(peak_idx, -1, -1) *)
RECURSIVE LeftScan_to_zero(_, _, _)
LeftScan_to_zero(a, half_max, i) ==
    IF i < 0 THEN None
    ELSE IF RLe(AtWrap(a, i - 1), half_max) /\ RLe(half_max, At(a, i))
         THEN IF At(a, i) # AtWrap(a, i - 1)
              THEN Some(RAdd(R(i - 1),
                             RDiv(RSub(half_max, AtWrap(a, i - 1)),
                                  RSub(At(a, i), AtWrap(a, i - 1)))))
              ELSE Some(R(i))
         ELSE LeftScan_to_zero(a, half_max, i - 1)

(* variant: the left interpolation measures from the upper sample *)
RECURSIVE LeftScan_from_high(_, _, _)
LeftScan_from_high(a, half_max, i) ==
    IF i < 1 THEN None
    ELSE IF RLe(At(a, i - 1), half_max) /\ RLe(half_max, At(a, i))
         THEN IF At(a, i) # At(a, i - 1)
              THEN Some(RAdd(R(i - 1),
                             RDiv(RSub(At(a, i), half_max),
                                  RSub(At(a, i), At(a, i - 1)))))
              ELSE Some(R(i))
         ELSE LeftScan_from_high(a, half_max, i - 1)

(* variant: the left crossing is measured from index i instead of i - 1 *)
RECURSIVE LeftScan_from_i(_, _, _)
LeftScan_from_i(a, half_max, i) ==
    IF i < 1 THEN None
    ELSE IF RLe(At(a, i - 1), half_max) /\ RLe(half_max, At(a, i))
         THEN IF At(a, i) # At(a, i - 1)
              THEN Some(RAdd(R(i),
                             RDiv(RSub(half_max, At(a, i - 1)),
                                  RSub(At(a, i), At(a, i - 1)))))
              ELSE Some(R(i))
         ELSE LeftScan_from_i(a, half_max, i - 1)

RECURSIVE LeftScan(_, _, _)
LeftScan(a, half_max, i) ==
    IF i < 1 THEN None
    ELSE IF RLe(At(a, i - 1), half_max) /\ RLe(half_max, At(a, i))
         THEN IF At(a, i) # At(a, i - 1)
              THEN Some(RAdd(R(i - 1),
                             RDiv(RSub(half_max, At(a, i - 1)),
                                  RSub(At(a, i), At(a, i - 1)))))
              ELSE Some(R(i))
         ELSE LeftScan(a, half_max, i - 1)

(* variant: the right interpolation measures from the lower sample *)
RECURSIVE RightScan_from_low(_, _, _)
RightScan_from_low(a, half_max, i) ==
    IF i >= Len(a) - 1 THEN None
    ELSE IF RGe(At(a, i), half_max) /\ RGe(half_max, At(a, i + 1))
         THEN IF At(a, i) # At(a, i + 1)
              THEN Some(RAdd(R(i),
                             RDiv(RSub(half_max, At(a, i + 1)),
                                  RSub(At(a, i), At(a, i + 1)))))
              ELSE Some(R(i))
         ELSE RightScan_from_low(a, half_max, i + 1)

RECURSIVE RightScan(_, _, _)
RightScan(a, half_max, i) ==
    IF i >= Len(a) - 1 THEN None
    ELSE IF RGe(At(a, i), half_max) /\ RGe(half_max, At(a, i + 1))
         THEN IF At(a, i) # At(a, i + 1)
              THEN Some(RAdd(R(i),
                             RDiv(RSub(At(a, i), half_max),
                                  RSub(At(a, i), At(a, i + 1)))))
              ELSE Some(R(i))
         ELSE RightScan(a, half_max, i + 1)

HalfMax(a) == RDiv(RAdd(At(a, np_argmax(a)), np_min(a)), R(2))

(* variant: no length guard; np.argmax raises on an empty array *)
calculate_fwhm_no_guard(a) ==
    IF Len(a) = 0 THEN Raise("ValueError")
    ELSE LET peak_idx == np_argmax(a)
             half_max == HalfMax(a)
             left_pos == LeftScan(a, half_max, peak_idx)
             right_pos == RightScan(a, half_max, peak_idx)
         IN  IF left_pos # None /\ right_pos # None
             THEN Return(<<Some(RSub(right_pos[1], left_pos[1])),
                           left_pos, right_pos>>)
             ELSE Return(<<None, None, None>>)

calculate_fwhm(a) ==
    IF Len(a) < 3 THEN Return(<<None, None, None>>)
    ELSE LET peak_idx == np_argmax(a)
             half_max == HalfMax(a)
             left_pos == LeftScan(a, half_max, peak_idx)
             right_pos == RightScan(a, half_max, peak_idx)
         IN  IF left_pos # None /\ right_pos # None
             THEN Return(<<Some(RSub(right_pos[1], left_pos[1])),
                           left_pos, right_pos>>)
             ELSE Return(<<None, None, None>>)

(* variant: the two crossings unpacked in the wrong order *)
calculate_stats_swapped(a) ==
    IF Len(a) = 0 THEN Raise("ValueError")
    ELSE LET t == calculate_fwhm(a)
         IN  IF t.exc # "" THEN t
             ELSE Return([mean |-> np_mean(a),
                          variance |-> np_var(a),
                          min_val |-> np_min(a),
                          max_val |-> np_max(a),
                          fwhm |-> t.val[1],
                          fwhm_left |-> t.val[3],
                          fwhm_right |-> t.val[2],
                          peak_pos |-> np_argmax(a)])

calculate_stats(a) ==
    IF Len(a) = 0 THEN Raise("ValueError")
    ELSE LET t == calculate_fwhm(a)
         IN  IF t.exc # "" THEN t
             ELSE Return([mean |-> np_mean(a),
                          variance |-> np_var(a),
                          min_val |-> np_min(a),
                          max_val |-> np_max(a),
                          fwhm |-> t.val[1],
                          fwhm_left |-> t.val[2],
                          fwhm_right |-> t.val[3],
                          peak_pos |-> np_argmax(a)])

(* variant: the mean of the channels *)
to_grayscale_mean(f) ==
    IF f.c > 0
    THEN [h |-> f.h, w |-> f.w,
          px |-> [i \in 1..f.h |-> [j \in 1..f.w |->
                    np_mean([k \in 1..f.c |-> R(f.px[i][j][k])])]]]
    ELSE [h |-> f.h, w |-> f.w,
          px |-> [i \in 1..f.h |-> [j \in 1..f.w |-> R(f.px[i][j])]]]

to_grayscale(f) ==
    IF f.c > 0
    THEN [h |-> f.h, w |-> f.w,
          px |-> [i \in 1..f.h |-> [j \in 1..f.w |-> R(f.px[i][j][1])]]]
    ELSE [h |-> f.h, w |-> f.w,
          px |-> [i \in 1..f.h |-> [j \in 1..f.w |-> R(f.px[i][j])]]]

(* variant: the statistics are computed before the normalization *)
analyze_stats_raw(slf, f, axis) ==
    LET gray == to_grayscale(f)
        p == calculate_projection(gray, axis, slf.mode)
        stats == IF p.exc # "" THEN p ELSE calculate_stats(p.val)
        n == IF p.exc # "" THEN p
             ELSE IF slf.normalize THEN normalize_projection(p.val) ELSE p
    IN  IF stats.exc # "" THEN stats
        ELSE IF n.exc # "" THEN n ELSE Return(<<n.val, stats.val>>)

(* variant: the normalize flag is tested inverted *)
analyze_flag_inverted(slf, f, axis) ==
    LET gray == to_grayscale(f)
        p == calculate_projection(gray, axis, slf.mode)
        n == IF p.exc # "" THEN p
             ELSE IF ~slf.normalize THEN normalize_projection(p.val) ELSE p
        stats == IF n.exc # "" THEN n ELSE calculate_stats(n.val)
    IN  IF stats.exc # "" THEN stats ELSE Return(<<n.val, stats.val>>)

analyze(slf, f, axis) ==
    LET gray == to_grayscale(f)
        p == calculate_projection(gray, axis, slf.mode)
        n == IF p.exc # "" THEN p
             ELSE IF slf.normalize THEN normalize_projection(p.val) ELSE p
        stats == IF n.exc # "" THEN n ELSE calculate_stats(n.val)
    IN  IF stats.exc # "" THEN stats ELSE Return(<<n.val, stats.val>>)

analyze_x(slf, f) == analyze(slf, f, 0)
analyze_y(slf, f) == analyze(slf, f, 1)

----------------------------------------------------------------------------
(* Effects on the argument array.  numpy arrays are mutable objects passed *)
(* by reference.  No statement of the module assigns into an argument:     *)
(* data / max_val, data.copy(), astype and the reductions all build a new  *)
(* array.  InputAfter is the content of the argument after the call of o,  *)
(* Aliased tells whether the returned array is the argument object itself. *)

(* variant: normalize_projection divides in place (data /= max_val) and    *)
(* returns data                                                            *)
InputAfter_in_place(o, x) ==
    IF o = "normalize_projection" /\ Len(x) > 0
    THEN IF RGt(np_max(x), R(0))
         THEN [k \in 1..Len(x) |-> RDiv(x[k], np_max(x))]
         ELSE x
    ELSE x

InputAfter(o, x) == x

Aliased(o, x) == FALSE

----------------------------------------------------------------------------
(* Inputs *)

Vals == {R(v) : v \in (-MaxNeg)..MaxVal}
Profiles == UNION {[1..n -> Vals] : n \in 0..MaxLen} \cup
            {<<R(1), R(2), R(3), R(4), R(5)>>}

Pix == 0..MaxPix
(* shapes (h, w) of the frames of cc channels with at most MaxSamples samples *)
Shapes(cc) ==
    {sh \in (1..MaxSamples) \X (1..MaxSamples) :
        sh[1] * sh[2] * cc <= MaxSamples}
Frames2D ==
    UNION {{[h |-> sh[1], w |-> sh[2], c |-> 0, px |-> p] :
              p \in [1..sh[1] -> [1..sh[2] -> Pix]]} : sh \in Shapes(1)}
Frames3D ==
    UNION {UNION {{[h |-> sh[1], w |-> sh[2], c |-> cc, px |-> p] :
                     p \in [1..sh[1] -> [1..sh[2] -> [1..cc -> Pix]]]} :
                  sh \in Shapes(cc)} : cc \in 1..MaxChan}

(* 2-D grids without samples: zero rows or zero columns *)
EmptyGrids ==
    {[h |-> sh[1], w |-> sh[2], c |-> 0, px |-> [i \in 1..sh[1] |-> << >>]] :
        sh \in {t \in (0..MaxSamples) \X (0..MaxSamples) : t[1] * t[2] = 0}}

NoFrame == [h |-> 0, w |-> 0, c |-> 0, px |-> << >>]
NoArgs == [axis |-> 0, mode |-> "avg"]
NoRet == Return(<< >>)

----------------------------------------------------------------------------
(* State machine: one call of one operation on the drawn input.            *)
(* pc = "profile": a profile is held; pc = "frame": a frame and an         *)
(* analyzer (ProjectionAnalyzer(mode, normalize)) are held; "done": the    *)
(* call has returned, op names it and ret is its outcome.  pc = "grid": a  *)
(* 2-D grid without samples is held for calculate_projection.              *)

(* MainWindow.__init__: both analyzers are ProjectionAnalyzer(mode=AVERAGE), *)
(* normalize defaulting to False.                                          *)
DefaultCfg == [mode |-> "avg", normalize |-> FALSE]

NoEvent == [kind |-> "init", frame |-> NoFrame, out |-> NoRet,
            compared |-> FALSE]

CfgIdle ==
    /\ x_analyzer = DefaultCfg
    /\ y_analyzer = DefaultCfg
    /\ cfg = [x |-> DefaultCfg, y |-> DefaultCfg]
    /\ ev = NoEvent
    /\ memo = None

(* ControlPanel.set_running: the enabled state of the two buttons *)
set_running(running) == [start |-> ~running, stop |-> running]

NoCamera == [created |-> FALSE, connected |-> FALSE, acquiring |-> FALSE]

NoWorker == [id |-> 0, pc |-> "none", running |-> FALSE]

NoEmission == [errors |-> 0, late |-> FALSE, skipped |-> FALSE]

MainIdle(done) == [pc |-> "idle", origin |-> "none", tid |-> 0, done |-> done]

(* MainWindow.__init__ and ControlPanel's construction: no camera, no      *)
(* thread, Start enabled, Stop disabled.                                   *)
AcqIdle ==
    /\ camera = NoCamera
    /\ thread = 0
    /\ frame_count = 0
    /\ controls = [start |-> TRUE, stop |-> FALSE]
    /\ worker = NoWorker
    /\ main = MainIdle("init")
    /\ queue = << >>
    /\ acquired = 0
    /\ shown = << >>
    /\ emitted = NoEmission
    /\ fails = 0
    /\ starts = 0

(* MockCamera.__init__ and SpinnakerCamera.__init__.  A camera object is  *)
(* one record for both classes: w, h, exposure_us, gain_db, fps and        *)
(* frame_count are MockCamera's attributes; serial, system, cam_list,      *)
(* handle (self._camera) and processor are SpinnakerCamera's, each TRUE    *)
(* when the attribute is not None.  inited is the SDK's side: Init() has   *)
(* been called on the device and DeInit() has not.                         *)
NewCamera(kind, dims, serial) ==
    [frame_count |-> 0, h |-> dims.h, w |-> dims.w, kind |-> kind,
     connected |-> FALSE, acquiring |-> FALSE, serial |-> serial,
     exposure_us |-> 10000, gain_db |-> 0, fps |-> 30,
     system |-> FALSE, cam_list |-> FALSE,
     handle |-> FALSE, processor |-> FALSE, inited |-> FALSE]

NoCall == [op |-> "init", out |-> NoRet, before |-> << >>,
           obtained |-> FALSE, releases |-> 0, compared |-> FALSE]

CamIdle ==
    /\ cam = NewCamera("mock", [h |-> 2, w |-> 2], FALSE)
    /\ cam_ev = NoCall
    /\ cam_memo = None

(* ProjectionPlot.__init__: no data, axis shown, nothing cached.  size is  *)
(* the widget's (width, height) as one number; cached is None or the       *)
(* inputs the cached path was built from.                                  *)
NewPlot(size) ==
    [data |-> None, show_axis |-> TRUE, size |-> size, cached |-> None]

NoPlotEvent == [op |-> "init", painted |-> None, before |-> None]

PlotIdle ==
    /\ plot = NewPlot(1)
    /\ plot_ev = NoPlotEvent

Init ==
    /\ AcqIdle
    /\ CfgIdle
    /\ CamIdle
    /\ PlotIdle
    /\ op = "none"
    /\ alias = FALSE
    /\ args = NoArgs
    /\ ret = NoRet
    /\ \/ /\ pc = "profile"
          /\ data \in Profiles
          /\ frame = NoFrame
          /\ self = [mode |-> "avg", normalize |-> FALSE]
       \/ /\ pc = "frame"
          /\ data = << >>
          /\ \/ frame \in Frames2D
             \/ frame \in Frames3D
          /\ self \in [mode : ProjectionMode, normalize : BOOLEAN]
       \/ /\ pc = "grid"
          /\ data = << >>
          /\ frame \in EmptyGrids
          /\ self = [mode |-> "avg", normalize |-> FALSE]

CalculateProjection ==
    /\ pc \in {"frame", "grid"}
    /\ frame.c = 0
    /\ \E axis \in {0, 1}, mode \in ProjectionMode :
          /\ args' = [axis |-> axis, mode |-> mode]
          /\ ret' = calculate_projection(to_grayscale(frame), axis, mode)
    /\ op' = "calculate_projection"
    /\ pc' = "done"
    /\ frame' = InputAfter("calculate_projection", frame)
    /\ alias' = Aliased("calculate_projection", frame)
    /\ UNCHANGED <<data, self>>
    /\ UNCHANGED <<cfgVars, acqVars, camVars, plotVars>>

ToGrayscale ==
    /\ pc = "frame"
    /\ ret' = Return(to_grayscale(frame))
    /\ op' = "to_grayscale"
    /\ pc' = "done"
    /\ frame' = InputAfter("to_grayscale", frame)
    /\ alias' = Aliased("to_grayscale", frame)
    /\ UNCHANGED <<data, self, args>>
    /\ UNCHANGED <<cfgVars, acqVars, camVars, plotVars>>

AnalyzeX ==
    /\ pc = "frame"
    /\ ret' = analyze_x(self, frame)
    /\ op' = "analyze_x"
    /\ pc' = "done"
    /\ frame' = InputAfter("analyze_x", frame)
    /\ alias' = Aliased("analyze_x", frame)
    /\ UNCHANGED <<data, self, args>>
    /\ UNCHANGED <<cfgVars, acqVars, camVars, plotVars>>

AnalyzeY ==
    /\ pc = "frame"
    /\ ret' = analyze_y(self, frame)
    /\ op' = "analyze_y"
    /\ pc' = "done"
    /\ frame' = InputAfter("analyze_y", frame)
    /\ alias' = Aliased("analyze_y", frame)
    /\ UNCHANGED <<data, self, args>>
    /\ UNCHANGED <<cfgVars, acqVars, camVars, plotVars>>

NormalizeProjection ==
    /\ pc = "profile"
    /\ ret' = normalize_projection(data)
    /\ op' = "normalize_projection"
    /\ pc' = "done"
    /\ data' = InputAfter("normalize_projection", data)
    /\ alias' = Aliased("normalize_projection", data)
    /\ UNCHANGED <<frame, self, args>>
    /\ UNCHANGED <<cfgVars, acqVars, camVars, plotVars>>

CalculateFwhm ==
    /\ pc = "profile"
    /\ ret' = calculate_fwhm(data)
    /\ op' = "calculate_fwhm"
    /\ pc' = "done"
    /\ data' = InputAfter("calculate_fwhm", data)
    /\ alias' = Aliased("calculate_fwhm", data)
    /\ UNCHANGED <<frame, self, args>>
    /\ UNCHANGED <<cfgVars, acqVars, camVars, plotVars>>

CalculateStats ==
    /\ pc = "profile"
    /\ ret' = calculate_stats(data)
    /\ op' = "calculate_stats"
    /\ pc' = "done"
    /\ data' = InputAfter("calculate_stats", data)
    /\ alias' = Aliased("calculate_stats", data)
    /\ UNCHANGED <<frame, self, args>>
    /\ UNCHANGED <<cfgVars, acqVars, camVars, plotVars>>

Next ==
    \/ CalculateProjection
    \/ ToGrayscale
    \/ AnalyzeX
    \/ AnalyzeY
    \/ NormalizeProjection
    \/ CalculateFwhm
    \/ CalculateStats

Spec == Init /\ [][Next]_vars

TypeOK ==
    /\ pc \in {"profile", "frame", "grid", "done"}
    /\ ret.exc \in {"", "ValueError"}

----------------------------------------------------------------------------
(* The analyzers as MainWindow owns them: a behaviour is any sequence of   *)
(* setting changes and analysis calls.                                     *)

MaxSeqPix == 2

(* one-pixel mono frames *)
SeqFrames ==
    {[h |-> 1, w |-> 1, c |-> 0, px |-> << <<v>> >>] : v \in 0..MaxSeqPix}

(* strings carried by mode_changed: the four the panels emit and one the   *)
(* handler's map does not know                                             *)
ModeStrings == {"avg", "sum", "min", "max", "median"}

(* mode_map.get(mode, ProjectionMode.AVERAGE) *)
mode_map_get(mode) ==
    IF mode \in {"avg", "sum", "min", "max"} THEN mode ELSE "avg"

(* The setters take the pair <<_x_analyzer, _y_analyzer>> and return it    *)
(* after the assignment.                                                   *)

(* variant: the X handler also assigns the mode of the Y analyzer *)
on_x_mode_changed_both(an, mode) ==
    <<[an[1] EXCEPT !.mode = mode_map_get(mode)],
      [an[2] EXCEPT !.mode = mode_map_get(mode)]>>

on_x_mode_changed(an, mode) ==
    <<[an[1] EXCEPT !.mode = mode_map_get(mode)], an[2]>>

on_y_mode_changed(an, mode) ==
    <<an[1], [an[2] EXCEPT !.mode = mode_map_get(mode)]>>

on_x_normalize_changed(an, normalize) ==
    <<[an[1] EXCEPT !.normalize = normalize], an[2]>>

on_y_normalize_changed(an, normalize) ==
    <<an[1], [an[2] EXCEPT !.normalize = normalize]>>

(* The analyzer's attributes after analyze_x / analyze_y: the methods read *)
(* self.mode and self.normalize and assign nothing.                        *)

(* variant: the analysis switches normalization on for later calls *)
AnalyzerAfter_sticky(slf) == [slf EXCEPT !.normalize = TRUE]

AnalyzerAfter(slf) == slf

SetterEvent(kind) ==
    [kind |-> kind, frame |-> NoFrame, out |-> NoRet, compared |-> FALSE]

OnXModeChanged ==
    \E mode \in ModeStrings :
        /\ x_analyzer' = on_x_mode_changed(<<x_analyzer, y_analyzer>>, mode)[1]
        /\ y_analyzer' = on_x_mode_changed(<<x_analyzer, y_analyzer>>, mode)[2]
        /\ cfg' = [cfg EXCEPT !.x.mode = mode_map_get(mode)]
        /\ ev' = SetterEvent("x_mode")
        /\ UNCHANGED <<memo, coreVars, acqVars,
                   camVars, plotVars>>

OnYModeChanged ==
    \E mode \in ModeStrings :
        /\ x_analyzer' = on_y_mode_changed(<<x_analyzer, y_analyzer>>, mode)[1]
        /\ y_analyzer' = on_y_mode_changed(<<x_analyzer, y_analyzer>>, mode)[2]
        /\ cfg' = [cfg EXCEPT !.y.mode = mode_map_get(mode)]
        /\ ev' = SetterEvent("y_mode")
        /\ UNCHANGED <<memo, coreVars, acqVars,
                   camVars, plotVars>>

OnXNormalizeChanged ==
    \E normalize \in BOOLEAN :
        /\ x_analyzer' =
               on_x_normalize_changed(<<x_analyzer, y_analyzer>>, normalize)[1]
        /\ y_analyzer' =
               on_x_normalize_changed(<<x_analyzer, y_analyzer>>, normalize)[2]
        /\ cfg' = [cfg EXCEPT !.x.normalize = normalize]
        /\ ev' = SetterEvent("x_normalize")
        /\ UNCHANGED <<memo, coreVars, acqVars,
                   camVars, plotVars>>

OnYNormalizeChanged ==
    \E normalize \in BOOLEAN :
        /\ x_analyzer' =
               on_y_normalize_changed(<<x_analyzer, y_analyzer>>, normalize)[1]
        /\ y_analyzer' =
               on_y_normalize_changed(<<x_analyzer, y_analyzer>>, normalize)[2]
        /\ cfg' = [cfg EXCEPT !.y.normalize = normalize]
        /\ ev' = SetterEvent("y_normalize")
        /\ UNCHANGED <<memo, coreVars, acqVars,
                   camVars, plotVars>>

(* What an analysis call leaves in ev and memo: with keep the call is      *)
(* remembered, otherwise it is compared with the remembered one.           *)
Remembered(kind, f, c, out) ==
    [kind |-> kind, frame |-> f, cfg |-> c, out |-> out, between |-> FALSE]

MemoAfter(kind, f, c, out, keep) ==
    IF keep THEN Some(Remembered(kind, f, c, out))
    ELSE IF memo = None THEN None
    ELSE Some([memo[1] EXCEPT !.between = @ \/ f # memo[1].frame])

(* self._x_analyzer.analyze_x(frame) in MainWindow._on_frame *)
XAnalysis ==
    \E f \in SeqFrames, keep \in BOOLEAN :
        /\ ev' = [kind |-> "analyze_x", frame |-> f,
                  out |-> analyze_x(x_analyzer, f),
                  compared |-> ~keep /\ memo # None]
        /\ memo' = MemoAfter("analyze_x", f, cfg.x,
                             analyze_x(x_analyzer, f), keep)
        /\ x_analyzer' = AnalyzerAfter(x_analyzer)
        /\ UNCHANGED <<y_analyzer, cfg, coreVars, acqVars,
                   camVars, plotVars>>

(* self._y_analyzer.analyze_y(frame) in MainWindow._on_frame *)
YAnalysis ==
    \E f \in SeqFrames, keep \in BOOLEAN :
        /\ ev' = [kind |-> "analyze_y", frame |-> f,
                  out |-> analyze_y(y_analyzer, f),
                  compared |-> ~keep /\ memo # None]
        /\ memo' = MemoAfter("analyze_y", f, cfg.y,
                             analyze_y(y_analyzer, f), keep)
        /\ y_analyzer' = AnalyzerAfter(y_analyzer)
        /\ UNCHANGED <<x_analyzer, cfg, coreVars, acqVars,
                   camVars, plotVars>>

CoreIdle ==
    /\ pc = "done"
    /\ data = << >>
    /\ frame = NoFrame
    /\ self = DefaultCfg
    /\ op = "none"
    /\ args = NoArgs
    /\ ret = NoRet
    /\ alias = FALSE

InitCfg == CoreIdle /\ CfgIdle /\ AcqIdle /\ CamIdle /\ PlotIdle

NextCfg ==
    \/ OnXModeChanged
    \/ OnYModeChanged
    \/ OnXNormalizeChanged
    \/ OnYNormalizeChanged
    \/ XAnalysis
    \/ YAnalysis

SpecCfg == InitCfg /\ [][NextCfg]_vars

----------------------------------------------------------------------------
(* Acquisition.  The worker executes AcquisitionThread.run one statement   *)
(* at a time; frame_ready and error are emitted in the worker and reach    *)
(* MainWindow's slots through the main thread's event queue, in posting    *)
(* order.  The main thread runs one handler at a time and is blocked       *)
(* while stop() waits for the worker.  Frames are numbered in the order    *)
(* get_frame returned them; 0 stands for None.                             *)

MaxFrames == 2
MaxStarts == 2
MaxFail == 2

(* the camera's methods, on the fields the handlers depend on *)
cam_connect(c) == [c EXCEPT !.connected = TRUE]

cam_start_acquisition(c) == [c EXCEPT !.acquiring = TRUE]

cam_stop_acquisition(c) == [c EXCEPT !.acquiring = FALSE]

cam_disconnect(c) == [cam_stop_acquisition(c) EXCEPT !.connected = FALSE]

(* what camera.get_frame() can do: None when not acquiring; otherwise a    *)
(* frame, None (incomplete image) or an exception                          *)
GetFrameOutcomes ==
    IF ~camera.acquiring THEN {"none"}
    ELSE {"none"}
         \cup (IF acquired < MaxFrames THEN {"frame"} ELSE {})
         \cup (IF fails < MaxFail THEN {"raise"} ELSE {})

(* variant: run() emits whatever get_frame returned *)
Emits_always(fr) == TRUE

(* if frame is not None: self.frame_ready.emit(frame) *)
Emits(fr) == fr # 0

(* variant: the except clause does not leave the loop *)
AfterRaise_continue == "test"

(* where run() continues after the except clause: break *)
AfterRaise == "finished"

Post(sig, fr) == Append(queue, [sig |-> sig, tid |-> worker.id, frame |-> fr])

(* _start_acquisition, from the Start button; connect() may raise, and     *)
(* then the handler only prints.                                           *)
StartAcquisition ==
    /\ main.pc = "idle"
    /\ controls.start
    /\ \E connects \in BOOLEAN :
          IF connects /\ starts < MaxStarts
          THEN /\ camera' = cam_start_acquisition(cam_connect(
                                [camera EXCEPT !.created = TRUE]))
               /\ frame_count' = 0
               /\ thread' = starts + 1
               /\ worker' = [id |-> starts + 1, pc |-> "started",
                             running |-> FALSE]
               /\ emitted' = NoEmission
               /\ starts' = starts + 1
               /\ controls' = set_running(TRUE)
               /\ main' = MainIdle("start")
          ELSE /\ camera' = [camera EXCEPT !.created = TRUE]
               /\ main' = MainIdle("start")
               /\ UNCHANGED <<frame_count, thread, worker, emitted, starts,
                              controls>>
    /\ UNCHANGED <<queue, acquired, shown, fails, coreVars, cfgVars, camVars, plotVars>>

(* run(): self._running = True *)
RunBegin ==
    /\ worker.pc = "started"
    /\ worker' = [worker EXCEPT !.running = TRUE, !.pc = "test"]
    /\ UNCHANGED <<camera, thread, frame_count, controls, main, queue,
                   acquired, shown, emitted, fails, starts, coreVars,
                   cfgVars, camVars, plotVars>>

(* run(): while self._running *)
LoopTest ==
    /\ worker.pc = "test"
    /\ worker' = [worker EXCEPT
                      !.pc = IF worker.running THEN "body" ELSE "finished"]
    /\ UNCHANGED <<camera, thread, frame_count, controls, main, queue,
                   acquired, shown, emitted, fails, starts, coreVars,
                   cfgVars, camVars, plotVars>>

(* run(): one pass of the loop body *)
GetFrame ==
    /\ worker.pc = "body"
    /\ \E outcome \in GetFrameOutcomes :
          \/ /\ outcome = "frame"
             /\ acquired' = acquired + 1
             /\ queue' = IF Emits(acquired + 1)
                         THEN Post("frame_ready", acquired + 1) ELSE queue
             /\ emitted' = [emitted EXCEPT !.late = @ \/ emitted.errors > 0]
             /\ worker' = [worker EXCEPT !.pc = "test"]
             /\ UNCHANGED fails
          \/ /\ outcome = "none"
             /\ queue' = IF Emits(0) THEN Post("frame_ready", 0) ELSE queue
             /\ emitted' = [emitted EXCEPT !.skipped = TRUE]
             /\ worker' = [worker EXCEPT !.pc = "test"]
             /\ UNCHANGED <<acquired, fails>>
          \/ /\ outcome = "raise"
             /\ queue' = Post("error", 0)
             /\ emitted' = [emitted EXCEPT !.errors = @ + 1]
             /\ fails' = fails + 1
             /\ worker' = [worker EXCEPT !.pc = AfterRaise]
             /\ UNCHANGED acquired
    /\ UNCHANGED <<camera, thread, frame_count, controls, main, shown, starts,
                   coreVars, cfgVars, camVars, plotVars>>

(* _stop_acquisition after the thread has been dealt with *)
StopRest(done) ==
    /\ thread' = 0
    /\ camera' = IF camera.created THEN cam_disconnect(
                        cam_stop_acquisition(camera)) ELSE camera
    /\ controls' = set_running(FALSE)
    /\ main' = MainIdle(done)

(* _stop_acquisition up to stop()'s wait(): self._running = False *)
StopBegin(origin, tid, done) ==
    IF thread # 0
    THEN /\ worker' = [worker EXCEPT !.running = FALSE]
         /\ main' = [pc |-> "waiting", origin |-> origin, tid |-> tid,
                     done |-> done]
         /\ UNCHANGED <<thread, camera, controls>>
    ELSE /\ StopRest(done)
         /\ UNCHANGED worker

(* the Stop button *)
StopClicked ==
    /\ main.pc = "idle"
    /\ controls.stop
    /\ StopBegin("button", 0, "stop")
    /\ UNCHANGED <<frame_count, queue, acquired, shown, emitted, fails, starts,
                   coreVars, cfgVars, camVars, plotVars>>

(* wait() returns once run() has returned *)
StopEnd ==
    /\ main.pc = "waiting"
    /\ worker.pc = "finished"
    /\ StopRest(main.done)
    /\ UNCHANGED <<frame_count, worker, queue, acquired, shown, emitted, fails,
                   starts, coreVars,
                   cfgVars, camVars, plotVars>>

(* _on_frame, delivered from the queue *)
OnFrame ==
    /\ main.pc = "idle"
    /\ queue # << >>
    /\ Head(queue).sig = "frame_ready"
    /\ queue' = Tail(queue)
    /\ shown' = Append(shown, Head(queue).frame)
    /\ frame_count' = IF Head(queue).frame # 0 THEN frame_count + 1
                      ELSE frame_count
    /\ main' = [MainIdle("on_frame") EXCEPT !.tid = Head(queue).tid]
    /\ UNCHANGED <<camera, thread, controls, worker, acquired, emitted, fails,
                   starts, coreVars,
                   cfgVars, camVars, plotVars>>

(* _on_error, delivered from the queue *)
OnError ==
    /\ main.pc = "idle"
    /\ queue # << >>
    /\ Head(queue).sig = "error"
    /\ queue' = Tail(queue)
    /\ StopBegin("error", Head(queue).tid, "on_error")
    /\ UNCHANGED <<frame_count, acquired, shown, emitted, fails, starts,
                   coreVars, cfgVars, camVars, plotVars>>

InitAcq == CoreIdle /\ CfgIdle /\ AcqIdle /\ CamIdle /\ PlotIdle

NextAcq ==
    \/ StartAcquisition
    \/ RunBegin
    \/ LoopTest
    \/ GetFrame
    \/ StopClicked
    \/ StopEnd
    \/ OnFrame
    \/ OnError

SpecAcq == InitAcq /\ [][NextAcq]_vars

(* every statement of a runnable thread is eventually executed, and wait() *)
(* returns once the thread has finished                                    *)
FairAcq ==
    /\ SpecAcq
    /\ WF_vars(RunBegin)
    /\ WF_vars(LoopTest)
    /\ WF_vars(GetFrame)
    /\ WF_vars(StopEnd)

TypeOKAcq ==
    /\ worker.pc \in {"none", "started", "test", "body", "finished"}
    /\ main.pc \in {"idle", "waiting"}
    /\ thread \in {0, worker.id}
    /\ Len(queue) <= MaxFrames + MaxFail
    /\ acquired <= MaxFrames

----------------------------------------------------------------------------
(* The cameras.  A behaviour is any sequence of calls on one camera        *)
(* object, which may be replaced by a newly constructed one.  What the     *)
(* Spinnaker SDK does in a call (which of its functions raises) is the     *)
(* outcome parameter of SpinnakerCamera's methods.  Timing (time.sleep,    *)
(* _last_frame_time) is left out: no result depends on it.                 *)

MaxCount == 2

MockDims == {[h |-> 2, w |-> 2], [h |-> 1, w |-> 60]}

Exposures == {0, 50, 10000}
Gains == {0, 10}
FpsValues == {0, 30}

Called(c, out) == [cam |-> c, out |-> out]

Clip(v, lo, hi) == IF v < lo THEN lo ELSE IF v > hi THEN hi ELSE v

(* np.linspace(0, stop, n, dtype=np.uint8)[i] *)
Linspace8(stop, n, i) == IF n = 1 THEN 0 ELSE (stop * i) \div (n - 1)

(* min(255, int(self._gain_db * 10 + self._exposure_us / 100)) *)
Brightness(c) == Clip((c.gain_db * 1000 + c.exposure_us) \div 100, 0, 255)

(* the pixel at column x, row y of the frame get_frame builds *)
MockPixel(c, x, y) ==
    LET cx == (c.frame_count * 5) % c.w
        cy == c.h \div 2
        pattern == Clip(Linspace8(255, c.w, x) + Linspace8(128, c.h, y) - 64,
                        0, 255)
        circled == IF (x - cx) * (x - cx) + (y - cy) * (y - cy) < 50 * 50
                   THEN 255 ELSE pattern
    IN  Clip(circled + Brightness(c) - 100, 0, 255)

(* the (height, width) array get_frame returns: two dimensions *)
MockFrame(c) ==
    [h |-> c.h, w |-> c.w, c |-> 0,
     px |-> [y \in 1..c.h |-> [x \in 1..c.w |-> MockPixel(c, x - 1, y - 1)]]]

MockCamera_connect(c) == Called(cam_connect(c), Return(None))

MockCamera_disconnect(c) == Called(cam_disconnect(c), Return(None))

MockCamera_start_acquisition(c) ==
    IF ~c.connected THEN Called(c, Raise("RuntimeError"))
    ELSE Called([c EXCEPT !.acquiring = TRUE, !.frame_count = 0],
                Return(None))

MockCamera_stop_acquisition(c) == Called(cam_stop_acquisition(c), Return(None))

(* variant: get_frame does not test self._acquiring *)
MockCamera_get_frame_no_guard(c) ==
    Called([c EXCEPT !.frame_count = @ + 1],
           Return(MockFrame([c EXCEPT !.frame_count = @ + 1])))

MockCamera_get_frame(c) ==
    IF ~c.acquiring THEN Called(c, Return(None))
    ELSE Called([c EXCEPT !.frame_count = @ + 1],
                Return(MockFrame([c EXCEPT !.frame_count = @ + 1])))

MockCamera_set_exposure(c, v) ==
    Called([c EXCEPT !.exposure_us = v], Return(None))

MockCamera_set_gain(c, v) == Called([c EXCEPT !.gain_db = v], Return(None))

MockCamera_set_fps(c, v) ==
    Called([c EXCEPT !.fps = IF v < 1 THEN 1 ELSE v], Return(None))

(* SpinnakerCamera.connect: the SDK finds no camera, does not find the    *)
(* serial, raises in Init(), raises in PySpin.ImageProcessor(), or all     *)
(* calls succeed.                                                          *)
ConnectOutcomes(c) ==
    {"no_cameras", "init_raises", "processor_raises", "ok"}
        \cup (IF c.serial THEN {"not_found"} ELSE {})

SpinnakerCamera_connect(c, outcome) ==
    LET found == [c EXCEPT !.system = TRUE, !.cam_list = TRUE,
                           !.handle = TRUE]
    IN  CASE outcome = "no_cameras" ->
                 Called([c EXCEPT !.system = FALSE, !.cam_list = FALSE],
                        Raise("RuntimeError"))
          [] outcome = "not_found" ->
                 Called([c EXCEPT !.handle = FALSE, !.system = FALSE,
                                  !.cam_list = FALSE],
                        Raise("RuntimeError"))
          [] outcome = "init_raises" ->
                 Called(found, Raise("SpinnakerException"))
          [] outcome = "processor_raises" ->
                 Called([found EXCEPT !.inited = TRUE], Raise("Exception"))
          [] OTHER ->
                 Called([found EXCEPT !.inited = TRUE, !.processor = TRUE,
                                      !.connected = TRUE],
                        Return(None))

SpinnakerCamera_stop_acquisition(c) ==
    Called(IF c.handle /\ c.acquiring THEN [c EXCEPT !.acquiring = FALSE]
           ELSE c,
           Return(None))

SpinnakerCamera_disconnect(c) ==
    LET stopped == IF c.acquiring THEN SpinnakerCamera_stop_acquisition(c).cam
                   ELSE c
    IN  Called([stopped EXCEPT !.processor = FALSE,
                               !.inited = IF stopped.handle THEN FALSE ELSE @,
                               !.handle = FALSE,
                               !.cam_list = FALSE,
                               !.system = FALSE,
                               !.connected = FALSE],
               Return(None))

(* BeginAcquisition succeeds only on an initialised device *)
StartOutcomes == {"ok", "sdk_error"}

SpinnakerCamera_start_acquisition(c, outcome) ==
    IF ~c.handle THEN Called(c, Raise("RuntimeError"))
    ELSE IF outcome = "ok" /\ c.inited
         THEN Called([c EXCEPT !.acquiring = TRUE], Return(None))
         ELSE Called(c, Raise("RuntimeError"))

(* GetNextImage raises (no image), the image is incomplete, GetNDArray     *)
(* raises, or a complete image is converted                                *)
FrameOutcomes == {"timeout", "incomplete", "convert_raises", "complete"}

SdkFrame == [h |-> 1, w |-> 1, c |-> 0, px |-> << <<0>> >>]

SpinnakerCamera_get_frame(c, outcome) ==
    IF ~c.handle \/ ~c.acquiring THEN Called(c, Return(None))
    ELSE IF outcome = "complete" THEN Called(c, Return(SdkFrame))
         ELSE Called(c, Return(None))

(* whether get_frame obtained an image from GetNextImage *)
Obtained(c, outcome) ==
    c.kind = "spinnaker" /\ c.handle /\ c.acquiring /\ outcome # "timeout"

(* calls of image_result.Release() in one get_frame call: the one on the   *)
(* incomplete path and the one in the finally clause                       *)
Releases(c, outcome) ==
    IF ~Obtained(c, outcome) THEN 0
    ELSE (IF outcome = "incomplete" THEN 1 ELSE 0) + 1

(* set_exposure, set_gain and set_fps write device nodes only *)
SpinnakerCamera_set(c) == Called(c, Return(None))

CallEvent(name, res) ==
    [op |-> name, out |-> res.out, before |-> cam,
     obtained |-> FALSE, releases |-> 0, compared |-> FALSE]

(* a call that is not get_frame: the camera after it, the call in cam_ev *)
Call(name, res) ==
    /\ cam' = res.cam
    /\ cam_ev' = CallEvent(name, res)
    /\ UNCHANGED <<cam_memo, coreVars, cfgVars, acqVars, plotVars>>

(* MockCamera(width, height) / SpinnakerCamera(serial) *)
CamCreate ==
    \/ \E dims \in MockDims :
          Call("create", Called(NewCamera("mock", dims, FALSE), Return(None)))
    \/ \E serial \in BOOLEAN :
          Call("create", Called(NewCamera("spinnaker", [h |-> 1, w |-> 1],
                                          serial), Return(None)))

CamConnect ==
    IF cam.kind = "mock" THEN Call("connect", MockCamera_connect(cam))
    ELSE \E outcome \in ConnectOutcomes(cam) :
            Call("connect", SpinnakerCamera_connect(cam, outcome))

CamDisconnect ==
    IF cam.kind = "mock" THEN Call("disconnect", MockCamera_disconnect(cam))
    ELSE Call("disconnect", SpinnakerCamera_disconnect(cam))

CamStartAcquisition ==
    IF cam.kind = "mock"
    THEN Call("start_acquisition", MockCamera_start_acquisition(cam))
    ELSE \E outcome \in StartOutcomes :
            Call("start_acquisition",
                 SpinnakerCamera_start_acquisition(cam, outcome))

CamStopAcquisition ==
    IF cam.kind = "mock"
    THEN Call("stop_acquisition", MockCamera_stop_acquisition(cam))
    ELSE Call("stop_acquisition", SpinnakerCamera_stop_acquisition(cam))

CamSetExposure ==
    \E v \in Exposures :
        IF cam.kind = "mock"
        THEN Call("set_exposure", MockCamera_set_exposure(cam, v))
        ELSE Call("set_exposure", SpinnakerCamera_set(cam))

CamSetGain ==
    \E v \in Gains :
        IF cam.kind = "mock" THEN Call("set_gain", MockCamera_set_gain(cam, v))
        ELSE Call("set_gain", SpinnakerCamera_set(cam))

CamSetFps ==
    \E v \in FpsValues :
        IF cam.kind = "mock" THEN Call("set_fps", MockCamera_set_fps(cam, v))
        ELSE Call("set_fps", SpinnakerCamera_set(cam))

(* a frame of the mock camera kept for comparison, with the dimensions and *)
(* the frame count it was generated at                                     *)
KeptFrame(res) ==
    [w |-> res.cam.w, h |-> res.cam.h, count |-> res.cam.frame_count,
     frame |-> res.out.val]

CamGetFrame ==
    \/ /\ cam.kind = "mock"
       /\ cam.acquiring => cam.frame_count < MaxCount
       /\ \E keep \in BOOLEAN :
             LET res == MockCamera_get_frame(cam)
             IN  /\ cam' = res.cam
                 /\ cam_ev' = [CallEvent("get_frame", res) EXCEPT
                                   !.compared = ~keep /\ cam_memo # None]
                 /\ cam_memo' = IF keep /\ res.out.val # None
                                THEN Some(KeptFrame(res)) ELSE cam_memo
    \/ /\ cam.kind = "spinnaker"
       /\ \E outcome \in FrameOutcomes :
             LET res == SpinnakerCamera_get_frame(cam, outcome)
             IN  /\ cam' = res.cam
                 /\ cam_ev' = [CallEvent("get_frame", res) EXCEPT
                                   !.obtained = Obtained(cam, outcome),
                                   !.releases = Releases(cam, outcome)]
                 /\ UNCHANGED cam_memo
    /\ UNCHANGED <<coreVars, cfgVars, acqVars, plotVars>>

InitCam ==
    /\ CoreIdle /\ CfgIdle /\ AcqIdle /\ PlotIdle
    /\ \/ \E dims \in MockDims : cam = NewCamera("mock", dims, FALSE)
       \/ \E serial \in BOOLEAN :
             cam = NewCamera("spinnaker", [h |-> 1, w |-> 1], serial)
    /\ cam_ev = NoCall
    /\ cam_memo = None

NextCam ==
    \/ CamCreate
    \/ CamConnect
    \/ CamDisconnect
    \/ CamStartAcquisition
    \/ CamStopAcquisition
    \/ CamGetFrame
    \/ CamSetExposure
    \/ CamSetGain
    \/ CamSetFps

SpecCam == InitCam /\ [][NextCam]_vars

TypeOKCam ==
    /\ cam.kind \in {"mock", "spinnaker"}
    /\ cam.frame_count \in 0..MaxCount
    /\ cam_ev.out.exc \in {"", "RuntimeError", "SpinnakerException",
                           "Exception"}

----------------------------------------------------------------------------
(* ProjectionPlot's cached path.  A behaviour is any sequence of           *)
(* update_data, set_show_axis, resize events, _build_path calls and paint  *)
(* events on one widget.  A path is kept as what _build_path reads to      *)
(* build it: the axis margin its first point starts at, the widget size    *)
(* and the data.  The statistics only place the mean and FWHM markers and  *)
(* are left out.                                                           *)

MaxPlotLen == 2
MaxSize == 2

PlotData ==
    UNION {[1..n -> {R(0), R(1)}] : n \in 0..MaxPlotLen}

(* axis_margin = 30 if self._show_axis else 5 *)
AxisMargin(show) == IF show THEN 30 ELSE 5

HasData(p) == p.data # None /\ Len(p.data[1]) > 0

PathOf(p) ==
    [axis_margin |-> AxisMargin(p.show_axis), size |-> p.size,
     data |-> p.data[1]]

(* variant: update_data keeps the cached path *)
update_data_keeps_path(p, d) == [p EXCEPT !.data = Some(d)]

update_data(p, d) == [p EXCEPT !.data = Some(d), !.cached = None]

set_show_axis(p, show) == [p EXCEPT !.show_axis = show]

build_path(p) ==
    IF ~HasData(p) THEN [p EXCEPT !.cached = None]
    ELSE [p EXCEPT !.cached = Some(PathOf(p))]

(* the widget has its new size when resizeEvent runs *)
resizeEvent(p, size) == [p EXCEPT !.size = size, !.cached = None]

(* paintEvent: the widget afterwards and the path it painted, if any *)
paintEvent(p) ==
    IF ~HasData(p) THEN [plot |-> p, painted |-> None]
    ELSE LET q == IF p.cached = None THEN build_path(p) ELSE p
         IN  [plot |-> q, painted |-> q.cached]

PlotEvent(name, painted) ==
    [op |-> name, painted |-> painted, before |-> plot.cached]

PlotUpdateData ==
    \E d \in PlotData :
        /\ plot' = update_data(plot, d)
        /\ plot_ev' = PlotEvent("update_data", None)
        /\ UNCHANGED <<coreVars, cfgVars, acqVars, camVars>>

PlotSetShowAxis ==
    \E show \in BOOLEAN :
        /\ plot' = set_show_axis(plot, show)
        /\ plot_ev' = PlotEvent("set_show_axis", None)
        /\ UNCHANGED <<coreVars, cfgVars, acqVars, camVars>>

PlotResize ==
    \E size \in 1..MaxSize :
        /\ size # plot.size
        /\ plot' = resizeEvent(plot, size)
        /\ plot_ev' = PlotEvent("resize", None)
        /\ UNCHANGED <<coreVars, cfgVars, acqVars, camVars>>

PlotBuildPath ==
    /\ plot' = build_path(plot)
    /\ plot_ev' = PlotEvent("build_path", None)
    /\ UNCHANGED <<coreVars, cfgVars, acqVars, camVars>>

PlotPaint ==
    /\ plot' = paintEvent(plot).plot
    /\ plot_ev' = PlotEvent("paint", paintEvent(plot).painted)
    /\ UNCHANGED <<coreVars, cfgVars, acqVars, camVars>>

InitPlot ==
    /\ CoreIdle /\ CfgIdle /\ AcqIdle /\ CamIdle
    /\ \E size \in 1..MaxSize : plot = NewPlot(size)
    /\ plot_ev = NoPlotEvent

NextPlot ==
    \/ PlotUpdateData
    \/ PlotSetShowAxis
    \/ PlotResize
    \/ PlotBuildPath
    \/ PlotPaint

SpecPlot == InitPlot /\ [][NextPlot]_vars

----------------------------------------------------------------------------
(* Reference definitions used by the properties *)

IsMaxOf(a, v) ==
    /\ \E k \in 1..Len(a) : a[k] = v
    /\ \A k \in 1..Len(a) : RLe(a[k], v)

IsMinOf(a, v) ==
    /\ \E k \in 1..Len(a) : a[k] = v
    /\ \A k \in 1..Len(a) : RLe(v, a[k])

IsFirstMax(a, p) ==
    /\ p \in 0..(Len(a) - 1)
    /\ \A k \in 0..(Len(a) - 1) : RLe(At(a, k), At(a, p))
    /\ \A k \in 0..(p - 1) : RLt(At(a, k), At(a, p))

(* the t-th sample collapsed into output position k of a 2-D frame *)
Sample(f, axis, k, t) ==
    IF axis = 0 THEN R(f.px[t + 1][k + 1]) ELSE R(f.px[k + 1][t + 1])

NCollapsed(f, axis) == IF axis = 0 THEN f.h ELSE f.w
NKept(f, axis) == IF axis = 0 THEN f.w ELSE f.h

RECURSIVE RefSum(_, _, _, _)
RefSum(f, axis, k, n) ==
    IF n = 0 THEN R(0)
    ELSE RAdd(RefSum(f, axis, k, n - 1), Sample(f, axis, k, n - 1))

RefOk(f, axis, mode, k, v) ==
    LET n == NCollapsed(f, axis)
    IN  IF mode = "sum" THEN v = RefSum(f, axis, k, n)
        ELSE IF mode = "min"
             THEN /\ \E t \in 0..(n - 1) : v = Sample(f, axis, k, t)
                  /\ \A t \in 0..(n - 1) : RLe(v, Sample(f, axis, k, t))
        ELSE IF mode = "max"
             THEN /\ \E t \in 0..(n - 1) : v = Sample(f, axis, k, t)
                  /\ \A t \in 0..(n - 1) : RGe(v, Sample(f, axis, k, t))
        ELSE v = RDiv(At(calculate_projection(to_grayscale(f), axis, "sum").val, k),
                      R(n))

----------------------------------------------------------------------------
(* C1: for every non-empty 2-D grid, each axis and each mode, the          *)
(* projection equals the reference reduction along the collapsed axis:     *)
(* SUM the exact sum of the samples, MIN / MAX the least / greatest        *)
(* sample, AVERAGE the SUM result divided by the number of collapsed       *)
(* samples.                                                                *)
C1_ProjectionIsReduction ==
    (op = "calculate_projection" /\ frame.h > 0 /\ frame.w > 0) =>
        /\ ret.exc = ""
        /\ \A k \in 0..(NKept(frame, args.axis) - 1) :
              RefOk(frame, args.axis, args.mode, k, At(ret.val, k))

C1_Witness ==
    /\ op = "calculate_projection"
    /\ args.mode = "avg"
    /\ args.axis = 0
    /\ frame.h = 2
    /\ frame.w = 1
    /\ ret.val = <<Rat(1, 2)>>

(* C2: a frame of height H and width W (2-D, or 3-D with channels; H and   *)
(* W at least 1) gives a profile of exactly W values for axis 0 /          *)
(* analyze_x and of exactly H values for axis 1 / analyze_y, in every      *)
(* mode, normalized or not.                                                *)
C2_ProfileLength ==
    /\ (op = "calculate_projection" /\ frame.h > 0 /\ frame.w > 0) =>
          /\ ret.exc = ""
          /\ Len(ret.val) = (IF args.axis = 0 THEN frame.w ELSE frame.h)
    /\ (op = "analyze_x") => (ret.exc = "" /\ Len(ret.val[1]) = frame.w)
    /\ (op = "analyze_y") => (ret.exc = "" /\ Len(ret.val[1]) = frame.h)

C2_Witness ==
    /\ op = "analyze_y"
    /\ frame.c > 1
    /\ frame.h = 2
    /\ frame.w = 1
    /\ self.normalize
    /\ self.mode = "sum"
    /\ Len(ret.val[1]) = 2

(* C3: for a non-empty profile whose maximum is > 0 the normalized profile *)
(* has maximum exactly 1 and every element is the input element divided by *)
(* that maximum; when the maximum is zero or negative the result equals    *)
(* the input element for element.                                          *)
C3_Normalize ==
    (op = "normalize_projection" /\ Len(data) > 0) =>
        /\ ret.exc = ""
        /\ Len(ret.val) = Len(data)
        /\ \A m \in 1..Len(data) :
              IsMaxOf(data, data[m]) =>
                 IF RGt(data[m], R(0))
                 THEN /\ IsMaxOf(ret.val, R(1))
                      /\ \A k \in 1..Len(data) :
                            RMul(ret.val[k], data[m]) = data[k]
                 ELSE \A k \in 1..Len(data) : ret.val[k] = data[k]

C3_Witness ==
    /\ op = "normalize_projection"
    /\ data = <<R(-1), R(2), R(1)>>
    /\ ret.val = <<Rat(-1, 2), R(1), Rat(1, 2)>>

----------------------------------------------------------------------------
(* Reference definitions for the FWHM properties *)

Absent == <<None, None, None>>

CrossLeft(a, h, i) == RLe(At(a, i - 1), h) /\ RLe(h, At(a, i))
CrossRight(a, h, i) == RGe(At(a, i), h) /\ RGe(h, At(a, i + 1))

FirstMaxIdx(a) == CHOOSE p \in 0..(Len(a) - 1) : IsFirstMax(a, p)
RefMin(a) == CHOOSE v \in {a[k] : k \in 1..Len(a)} : IsMinOf(a, v)
RefHalf(a) == RDiv(RAdd(At(a, FirstMaxIdx(a)), RefMin(a)), R(2))

LeftPairs(a) ==
    {i \in 1..FirstMaxIdx(a) : CrossLeft(a, RefHalf(a), i)}
RightPairs(a) ==
    {i \in FirstMaxIdx(a)..(Len(a) - 2) : CrossRight(a, RefHalf(a), i)}

(* the profile linearly interpolated at the position x >= 0 *)
Interp(a, x) ==
    LET k == x.n \div x.d
        f == RSub(x, R(k))
    IN  IF f = R(0) THEN At(a, k)
        ELSE RAdd(At(a, k), RMul(f, RSub(At(a, k + 1), At(a, k))))

WellFormed(t) ==
    \/ t = Absent
    \/ /\ t[1] # None /\ t[2] # None /\ t[3] # None
       /\ RGe(t[3][1], t[2][1])
       /\ RGe(t[2][1], R(0))
       /\ t[1][1] = RSub(t[3][1], t[2][1])

StatsTriple(st) == <<st.fwhm, st.fwhm_left, st.fwhm_right>>

(* C4: the result of calculate_fwhm is all-or-nothing and well ordered:    *)
(* either width, left and right are all absent or all present with         *)
(* right >= left >= 0 and width = right - left; it is present only if      *)
(* both crossings were found; calculate_stats carries exactly this triple. *)
C4_FwhmTriple ==
    /\ (op = "calculate_fwhm") =>
          /\ ret.exc = ""
          /\ WellFormed(ret.val)
          /\ (ret.val # Absent) =>
                /\ Len(data) >= 3
                /\ LeftPairs(data) # {}
                /\ RightPairs(data) # {}
    /\ (op = "calculate_stats" /\ ret.exc = "") =>
          /\ WellFormed(StatsTriple(ret.val))
          /\ StatsTriple(ret.val) = calculate_fwhm(data).val
    /\ (op \in {"analyze_x", "analyze_y"} /\ ret.exc = "") =>
          /\ WellFormed(StatsTriple(ret.val[2]))
          /\ StatsTriple(ret.val[2]) = calculate_fwhm(ret.val[1]).val

C4_Witness ==
    /\ op = "calculate_stats"
    /\ ret.exc = ""
    /\ ret.val.fwhm # None
    /\ RGt(ret.val.fwhm_right[1], ret.val.fwhm_left[1])
    /\ ret.val.fwhm_left[1].d > 1

(* C5: when calculate_fwhm returns a result for a profile of at least 3    *)
(* samples, with p the first index of the maximum and half_max =           *)
(* (peak + minimum) / 2: left lies in the first pair (i-1, i) met scanning *)
(* i from p down to 1 with data[i-1] <= half_max <= data[i], right lies in *)
(* the first pair (i, i+1) met scanning i from p upwards with              *)
(* data[i] >= half_max >= data[i+1], and the profile linearly interpolated *)
(* at left and at right equals half_max.                                   *)
C5_Crossings ==
    (op = "calculate_fwhm" /\ Len(data) >= 3 /\ ret.val # Absent) =>
        LET L == LeftPairs(data)
            Rp == RightPairs(data)
            iL == CHOOSE i \in L : \A j \in L : j <= i
            iR == CHOOSE i \in Rp : \A j \in Rp : i <= j
            left == ret.val[2][1]
            right == ret.val[3][1]
        IN  /\ L # {} /\ Rp # {}
            /\ RLe(R(iL - 1), left) /\ RLe(left, R(iL))
            /\ RLe(R(iR), right) /\ RLe(right, R(iR + 1))
            /\ Interp(data, left) = RefHalf(data)
            /\ Interp(data, right) = RefHalf(data)

C5_Witness ==
    /\ op = "calculate_fwhm"
    /\ Len(data) >= 3
    /\ ret.val # Absent
    /\ ret.val[2][1].d > 1
    /\ ret.val[3][1].d > 1
    /\ RLt(ret.val[2][1], R(FirstMaxIdx(data) - 1))
    /\ RGt(ret.val[3][1], R(FirstMaxIdx(data) + 1))

(* a profile mirror-symmetric about the interior index c (wherever both    *)
(* mirrored indices exist), strictly increasing up to c and strictly       *)
(* decreasing after c                                                      *)
SymUnimodal(a, c) ==
    /\ 0 < c /\ c < Len(a) - 1
    /\ \A k \in 1..Len(a) :
          (c - k >= 0 /\ c + k <= Len(a) - 1) => At(a, c - k) = At(a, c + k)
    /\ \A i \in 0..(c - 1) : RLt(At(a, i), At(a, i + 1))
    /\ \A i \in c..(Len(a) - 2) : RGt(At(a, i), At(a, i + 1))

SymmetricAround(t, c) == RSub(R(c), t[2][1]) = RSub(t[3][1], R(c))

C7_ShortProfile ==
    (op = "calculate_fwhm" /\ Len(data) < 3) => ret = Return(Absent)

C7_Witness ==
    /\ op = "calculate_fwhm"
    /\ Len(data) = 2
    /\ RLt(data[1], data[2])
    /\ ret = Return(Absent)

(* C8: for a profile of at least 3 samples whose first maximum is at index *)
(* 0 (strictly decreasing and flat profiles among them) calculate_fwhm     *)
(* finds no left crossing and returns the absent result, whatever the      *)
(* right-hand scan finds.                                                  *)
C8_PeakAtStart ==
    (op = "calculate_fwhm" /\ Len(data) >= 3 /\ IsFirstMax(data, 0)) =>
        ret = Return(Absent)

C8_Witness ==
    /\ op = "calculate_fwhm"
    /\ Len(data) >= 3
    /\ \A i \in 0..(Len(data) - 2) : RGt(At(data, i), At(data, i + 1))
    /\ RightPairs(data) # {}
    /\ ret = Return(Absent)

(* sum of the squared deviations of the first n elements from mu *)
RECURSIVE RefSqDev(_, _, _)
RefSqDev(a, mu, n) ==
    IF n = 0 THEN R(0)
    ELSE RAdd(RefSqDev(a, mu, n - 1),
              RMul(RSub(a[n], mu), RSub(a[n], mu)))

RECURSIVE RefTotal(_, _)
RefTotal(a, n) == IF n = 0 THEN R(0) ELSE RAdd(RefTotal(a, n - 1), a[n])

Example12345 == <<R(1), R(2), R(3), R(4), R(5)>>

(* C9: for a non-empty profile calculate_stats returns the arithmetic      *)
(* mean, the population variance (squared deviations divided by N), the    *)
(* minimum, the maximum and peak_pos = index of the first maximum, with    *)
(* profile[peak_pos] = max_val; [1,2,3,4,5] gives mean 3, min 1, max 5,    *)
(* peak_pos 4, variance 2.                                                 *)
C9_Statistics ==
    (op = "calculate_stats" /\ Len(data) > 0) =>
        /\ ret.exc = ""
        /\ RMul(ret.val.mean, R(Len(data))) = RefTotal(data, Len(data))
        /\ RMul(ret.val.variance, R(Len(data))) =
              RefSqDev(data, ret.val.mean, Len(data))
        /\ IsMinOf(data, ret.val.min_val)
        /\ IsMaxOf(data, ret.val.max_val)
        /\ IsFirstMax(data, ret.val.peak_pos)
        /\ At(data, ret.val.peak_pos) = ret.val.max_val
        /\ (data = Example12345) =>
              /\ ret.val.mean = R(3)
              /\ ret.val.min_val = R(1)
              /\ ret.val.max_val = R(5)
              /\ ret.val.peak_pos = 4
              /\ ret.val.variance = R(2)

C9_Witness ==
    /\ op = "calculate_stats"
    /\ data = Example12345
    /\ ret.exc = ""
    /\ ret.val.variance = R(2)
    /\ ret.val.peak_pos = 4

(* the channel-0 plane of a 3-D frame, as a 2-D frame *)
Plane0(f) ==
    [h |-> f.h, w |-> f.w, c |-> 0,
     px |-> [i \in 1..f.h |-> [j \in 1..f.w |-> f.px[i][j][1]]]]

(* C10: grayscale extraction of a 3-D frame yields at every pixel exactly  *)
(* the value of channel 0, and of a 2-D frame the frame's own values;      *)
(* analyze_x / analyze_y of a multi-channel frame equal the analysis of    *)
(* its channel-0 plane.                                                    *)
C10_ChannelZero ==
    /\ (op = "to_grayscale") =>
          /\ ret.exc = ""
          /\ ret.val.h = frame.h /\ ret.val.w = frame.w
          /\ \A i \in 1..frame.h : \A j \in 1..frame.w :
                ret.val.px[i][j] =
                    R(IF frame.c > 0 THEN frame.px[i][j][1] ELSE frame.px[i][j])
    /\ (op = "analyze_x" /\ frame.c > 0) => ret = analyze_x(self, Plane0(frame))
    /\ (op = "analyze_y" /\ frame.c > 0) => ret = analyze_y(self, Plane0(frame))

C10_Witness ==
    /\ op = "analyze_x"
    /\ frame.c = 2
    /\ frame.w = 2
    /\ frame.px[1][1] = <<1, 0>>
    /\ frame.px[1][2] = <<0, 1>>
    /\ self.mode = "max"
    /\ ret.val[1] = <<R(1), R(0)>>

----------------------------------------------------------------------------
(* Reference definitions for the analyzer properties *)

AnalyzeOps == {"analyze_x", "analyze_y"}
AxisOf(o) == IF o = "analyze_x" THEN 0 ELSE 1

(* the projected profile of the frame before any normalization *)
RawProfile(slf, f, axis) ==
    calculate_projection(to_grayscale(f), axis, slf.mode).val

HasPositive(a) == \E k \in 1..Len(a) : RGt(a[k], R(0))

(* the statistics reported for the same frame and axis with normalize off *)
StatsOff(slf, f, axis) ==
    analyze([slf EXCEPT !.normalize = FALSE], f, axis).val[2]

(* C11: with the normalize flag set the profile is normalized before the   *)
(* statistics are computed: the returned statistics are calculate_stats of *)
(* the returned profile, which is the raw profile divided by its maximum;  *)
(* when the raw maximum is positive the returned maximum and max_val are 1 *)
(* and the mean is at most 1.                                              *)
C11_NormalizeBeforeStats ==
    (op \in AnalyzeOps /\ self.normalize /\ ret.exc = "") =>
        LET raw == RawProfile(self, frame, AxisOf(op))
        IN  /\ calculate_stats(ret.val[1]) = Return(ret.val[2])
            /\ HasPositive(raw) =>
                  /\ \A m \in 1..Len(raw) :
                        IsMaxOf(raw, raw[m]) =>
                            \A k \in 1..Len(raw) :
                                RMul(ret.val[1][k], raw[m]) = raw[k]
                  /\ IsMaxOf(ret.val[1], R(1))
                  /\ ret.val[2].max_val = R(1)
                  /\ RLe(ret.val[2].mean, R(1))

C11_Witness ==
    /\ op = "analyze_x"
    /\ self.normalize
    /\ self.mode = "sum"
    /\ RawProfile(self, frame, 0) = <<R(2), R(1)>>
    /\ ret.val[1] = <<R(1), Rat(1, 2)>>
    /\ ret.val[2].max_val = R(1)
    /\ ret.val[2].mean = Rat(3, 4)

(* C13 as stated: with normalize on, the reported mean and standard        *)
(* deviation differ from those of the non-normalized analysis of the same  *)
(* frame on the same axis.                                                 *)
C13_Original ==
    (op \in AnalyzeOps /\ self.normalize /\ ret.exc = "") =>
        LET off == StatsOff(self, frame, AxisOf(op))
        IN  /\ ret.val[2].mean # off.mean
            /\ ret.val[2].variance # off.variance

(* C13: with M the maximum of the non-normalized profile, normalize on     *)
(* reports the non-normalized mean divided by M and the non-normalized     *)
(* standard deviation divided by M (variance by M * M) when M > 0, and the *)
(* same mean and standard deviation when M = 0; so the mean changes        *)
(* exactly when M > 0 and M # 1.                                           *)
C13_NormalizeScalesStats ==
    (op \in AnalyzeOps /\ self.normalize /\ ret.exc = "") =>
        LET raw == RawProfile(self, frame, AxisOf(op))
            off == StatsOff(self, frame, AxisOf(op))
        IN  \A m \in 1..Len(raw) :
                IsMaxOf(raw, raw[m]) =>
                    IF RGt(raw[m], R(0))
                    THEN /\ RMul(ret.val[2].mean, raw[m]) = off.mean
                         /\ RMul(ret.val[2].variance, RMul(raw[m], raw[m])) =
                               off.variance
                         /\ (ret.val[2].mean # off.mean) <=> (raw[m] # R(1))
                    ELSE /\ ret.val[2].mean = off.mean
                         /\ ret.val[2].variance = off.variance

C13_Witness ==
    /\ op = "analyze_y"
    /\ self.normalize
    /\ self.mode = "sum"
    /\ RawProfile(self, frame, 1) = <<R(1), R(2)>>
    /\ ret.val[2].mean = Rat(3, 4)
    /\ StatsOff(self, frame, 1).mean = Rat(3, 2)
    /\ ret.val[2].variance = Rat(1, 16)
    /\ StatsOff(self, frame, 1).variance = Rat(1, 4)

(* C17: every element of the result of normalize_projection lies between   *)
(* 0 and 1 inclusive, for every input profile.                             *)
C17_UnitRange ==
    (op = "normalize_projection" /\ ret.exc = "") =>
        \A k \in 1..Len(ret.val) :
            RLe(R(0), ret.val[k]) /\ RLe(ret.val[k], R(1))

(* C14: projection of a grid with zero rows or zero columns fails with an  *)
(* error for every mode and axis, and calculate_stats of an empty profile  *)
(* fails with an error: neither returns a result.                          *)
C14_EmptyFails ==
    /\ (op = "calculate_projection" /\ (frame.h = 0 \/ frame.w = 0)) =>
          ret.exc # ""
    /\ (op = "calculate_stats" /\ Len(data) = 0) => ret.exc # ""

CfgOf(kind) == IF kind = "analyze_x" THEN cfg.x ELSE cfg.y

SameCall ==
    /\ ev.compared
    /\ memo[1].kind = ev.kind
    /\ memo[1].frame = ev.frame
    /\ memo[1].cfg = CfgOf(ev.kind)

XSetters == {"x_mode", "x_normalize"}
YSetters == {"y_mode", "y_normalize"}

(* C15: both analyzers start as AVERAGE without normalization; an analyzer *)
(* changes only in a step of its own axis's setter: analysis calls change  *)
(* neither analyzer, X setters leave the Y analyzer alone and Y setters    *)
(* leave the X analyzer alone.                                             *)
C15_SettersOnly ==
    /\ x_analyzer = DefaultCfg /\ y_analyzer = DefaultCfg
    /\ [][/\ (x_analyzer' # x_analyzer) => ev'.kind \in XSetters
          /\ (y_analyzer' # y_analyzer) => ev'.kind \in YSetters
          /\ (ev'.kind \in AnalyzeOps) =>
                 (x_analyzer' = x_analyzer /\ y_analyzer' = y_analyzer)]_vars

C15_Witness ==
    /\ ev.kind = "x_mode"
    /\ x_analyzer = [mode |-> "max", normalize |-> FALSE]
    /\ y_analyzer = [mode |-> "sum", normalize |-> TRUE]
    /\ memo # None

(* a step of run() in which get_frame returned None *)
NoneStep ==
    /\ worker.pc = "body"
    /\ worker'.pc # "body"
    /\ acquired' = acquired
    /\ fails' = fails

(* C18: the payloads passed to _on_frame are frames that get_frame has     *)
(* returned, in the order it returned them and each at most once; a None   *)
(* result posts nothing and sends run() back to its loop test.             *)
C18_AcquisitionOrder ==
    /\ [](/\ \A i \in 1..Len(shown) : shown[i] \in 1..acquired
          /\ \A i, j \in 1..Len(shown) : i < j => shown[i] < shown[j])
    /\ [][NoneStep => (queue' = queue /\ worker'.pc = "test")]_vars

C18_Witness ==
    /\ shown = <<1, 2>>
    /\ emitted.skipped
    /\ worker.pc = "body"
    /\ starts = 2

(* C19: a call of stop() on a started thread returns: the main thread      *)
(* blocked in wait() eventually resumes.                                   *)
C19_StopReturns ==
    (main.pc = "waiting") ~> (main.pc = "idle")

C21_NotAcquiringNone ==
    (cam_ev.op = "get_frame" /\ ~cam_ev.before.acquiring) =>
        (cam_ev.out = Return(None) /\ cam = cam_ev.before)

C21_Witness ==
    /\ cam_ev.op = "get_frame"
    /\ cam_ev.before.kind = "mock"
    /\ cam_ev.before.connected /\ ~cam_ev.before.acquiring
    /\ cam_ev.before.frame_count = 1
    /\ cam_ev.out = Return(None)

(* C22: get_frame of an acquiring MockCamera(width=W, height=H) returns a  *)
(* frame of shape (H, W, 3).                                               *)
C22_ThreeChannels ==
    (cam_ev.op = "get_frame" /\ cam_ev.before.kind = "mock"
         /\ cam_ev.before.acquiring) =>
        /\ cam_ev.out.exc = "" /\ cam_ev.out.val # None
        /\ cam_ev.out.val.h = cam.h /\ cam_ev.out.val.w = cam.w
        /\ cam_ev.out.val.c = 3

(* C23: a frame returned by a mock camera equals every earlier frame that  *)
(* a mock camera of the same width and height returned at the same frame   *)
(* count, whatever calls were made in between.                             *)
C23_FrameOfCount ==
    (/\ cam_ev.op = "get_frame" /\ cam_ev.compared
     /\ cam_ev.out.val # None
     /\ cam_memo[1].w = cam.w /\ cam_memo[1].h = cam.h
     /\ cam_memo[1].count = cam.frame_count) =>
        cam_ev.out.val = cam_memo[1].frame

(* C24: a new camera is not connected, a connect() that returns leaves it  *)
(* connected, and after disconnect() it is neither connected nor           *)
(* acquiring.                                                              *)
C24_ConnectDisconnect ==
    /\ (cam_ev.op \in {"init", "create"}) => ~cam.connected
    /\ (cam_ev.op = "connect" /\ cam_ev.out.exc = "") => cam.connected
    /\ (cam_ev.op = "disconnect") => (~cam.connected /\ ~cam.acquiring)

(* C27: a camera that is acquiring is connected, after any sequence of     *)
(* calls, failed ones included.                                            *)
C27_AcquiringIsConnected ==
    cam.acquiring => cam.connected

(* C29: a get_frame call that obtained an image from GetNextImage has      *)
(* called Release() on it exactly once.                                    *)
C29_ReleasedOnce ==
    (cam_ev.op = "get_frame" /\ cam_ev.obtained) => cam_ev.releases = 1

(* C26: a present result of calculate_fwhm brackets the peak: left is      *)
(* below the index of the first maximum, right is at or above it and at    *)
(* most the last index, so the width is positive and at most the profile   *)
(* length minus 1; calculate_stats reports the same triple.                *)
Brackets(a, t) ==
    (t # Absent) =>
        /\ RLt(t[2][1], R(FirstMaxIdx(a)))
        /\ RLe(R(FirstMaxIdx(a)), t[3][1])
        /\ RLe(t[3][1], R(Len(a) - 1))
        /\ RGt(t[1][1], R(0))
        /\ RLe(t[1][1], R(Len(a) - 1))

C26_BracketsPeak ==
    /\ (op = "calculate_fwhm") => Brackets(data, ret.val)
    /\ (op = "calculate_stats" /\ ret.exc = "") =>
           Brackets(data, StatsTriple(ret.val))

C26_Witness ==
    /\ op = "calculate_fwhm"
    /\ data = <<R(0), R(2), R(1)>>
    /\ ret.val[2] = Some(Rat(1, 2))
    /\ ret.val[3] = Some(R(Len(data) - 1))

(* C28: _on_frame only handles frames of the thread MainWindow currently   *)
(* holds: after _on_frame has run, the frame it was given was emitted by   *)
(* the thread referenced by _thread, never by a thread that                *)
(* _stop_acquisition has already joined and cleared.                       *)
C28_NoFrameAfterStop ==
    (main.pc = "idle" /\ main.done = "on_frame") => main.tid = thread

C30_PaintsCurrent ==
    (plot_ev.op = "paint" /\ plot_ev.painted # None) =>
        plot_ev.painted = Some(PathOf(plot))

====
